---- MODULE Spec2Model ----
(***************************************************************************)
(* Model of MovieListApp/static/app.js: the browser-side view-sync loop.   *)
(* Every event handler is an async function; it runs atomically from one   *)
(* await on a network call to the next.  A handler suspended at an await   *)
(* is an element of the bag `tasks`; the arrival of its response is a      *)
(* Respond* action that runs the handler up to its next await or its end.  *)
(* Text (list names, form fields) is a sequence of one-character strings,  *)
(* so that trim() and slice() are computed, not assumed.                   *)
(***************************************************************************)
EXTENDS Bags, FiniteSets, Integers, Sequences, TLC

VARIABLES
    pushAvailable,  \* whether `new EventSource(...)` succeeds in this browser
    serverLists,    \* the server's list names (includes the reserved default)
    options,        \* option values of #list-select besides the '' placeholder
    selectValue,    \* #list-select .value: the Selection State
    shown,          \* what #movie-list displays
    es,             \* the `es` variable: <<>> is null, <<n>> an EventSource for n
    sources,        \* bag of list names: the EventSource objects that are open
    timers,         \* number of setInterval polling timers that are running
    editingContext, \* <<>> is null, else <<[id, origYear, origGenre]>>
    modalShown,     \* modal.style.display = 'flex'
    fields,         \* values of the four inputs of the edit modal
    results,        \* whether #results holds search hits with Add buttons
    runtime,        \* the value handed to formatRuntime and the text it returned
    tasks,          \* bag of suspended handlers, each awaiting one response
    last            \* what the last step did (observation of that step)

vars == <<pushAvailable, serverLists, options, selectValue, shown, es, sources,
          timers, editingContext, modalShown, fields, results, runtime, tasks,
          last>>

-----------------------------------------------------------------------------
(* Bounds of the model *)

\* handlers that may be suspended at an await at the same time
MaxTasks == 2
\* polling timers the model lets accumulate (the code sets no limit)
MaxTimers == 2

-----------------------------------------------------------------------------
(* Text *)

Empty == <<>>
A == <<"A">>
B == <<"B">>
Default == <<"d", "e", "f", "a", "u", "l", "t">>

IsSpace(c) == c = " "

RECURSIVE TrimStart(_)
TrimStart(s) ==
    IF s # <<>> /\ IsSpace(Head(s)) THEN TrimStart(Tail(s)) ELSE s

RECURSIVE TrimEnd(_)
TrimEnd(s) ==
    IF s # <<>> /\ IsSpace(s[Len(s)]) THEN TrimEnd(SubSeq(s, 1, Len(s) - 1)) ELSE s

\* String.prototype.trim
Trim(s) == TrimEnd(TrimStart(s))

\* mutant: the synopsis is not cut
Slice0_m(s, n) == s

\* String.prototype.slice(0, n)
Slice0(s, n) == SubSeq(s, 1, IF Len(s) < n THEN Len(s) ELSE n)

\* an optional value: <<>> is null/absent, <<x>> is x
None == <<>>
Some(x) == <<x>>

-----------------------------------------------------------------------------
(* Formatter: formatRuntime, lines 13-23 *)

\* raw runtime values: null, undefined, NaN, a number written sign, integer
\* part and decimals (1.5 is Num(FALSE, 1, <<"5">>)), or a string
Null == [kind |-> "null"]
Undefined == [kind |-> "undefined"]
NotANumber == [kind |-> "NaN"]
Num(neg, int, frac) == [kind |-> "number", neg |-> neg, int |-> int, frac |-> frac]
Str(s) == [kind |-> "string", text |-> s]

DigitChars == <<"0", "1", "2", "3", "4", "5", "6", "7", "8", "9">>

\* the class [0-9] of the regular expression of line 18
IsDigit(c) == \E i \in 1..Len(DigitChars) : DigitChars[i] = c

DigitVal(c) == (CHOOSE i \in 1..Len(DigitChars) : DigitChars[i] = c) - 1

\* Number.prototype.toString of a non-negative integer
RECURSIVE NatStr(_)
NatStr(n) ==
    IF n < 10 THEN <<DigitChars[n + 1]>>
    ELSE NatStr(n \div 10) \o <<DigitChars[(n % 10) + 1]>>

\* String(raw), line 15
String(raw) ==
    CASE raw.kind = "string" -> raw.text
      [] raw.kind = "number" ->
            (IF raw.neg THEN <<"-">> ELSE Empty) \o NatStr(raw.int)
            \o (IF raw.frac = Empty THEN Empty ELSE <<".">> \o raw.frac)
      [] raw.kind = "NaN" -> <<"N", "a", "N">>
      [] raw.kind = "null" -> <<"n", "u", "l", "l">>
      [] OTHER -> <<"u", "n", "d", "e", "f", "i", "n", "e", "d">>

\* s.replace(/[^0-9]/g, ''), line 18
StripNonDigits(s) == SelectSeq(s, IsDigit)

\* parseInt(d, 10) of a string of digits, line 18: <<>> is NaN, else <<n>>
RECURSIVE ParseDigits(_, _)
ParseDigits(d, acc) ==
    IF d = Empty THEN acc ELSE ParseDigits(Tail(d), 10 * acc + DigitVal(Head(d)))

ParseInt10(d) == IF d = Empty THEN None ELSE Some(ParseDigits(d, 0))

\* mutant: the minutes are not padded
PadStart_m(s, n, c) == s

\* String.prototype.padStart(n, c), line 22
RECURSIVE PadStart(_, _, _)
PadStart(s, n, c) == IF Len(s) >= n THEN s ELSE PadStart(<<c>> \o s, n, c)

formatRuntime(raw) ==
    IF raw.kind \in {"null", "undefined"} THEN Empty
    ELSE LET s == Trim(String(raw))
         IN  IF s = Empty THEN Empty
             ELSE LET n == ParseInt10(StripNonDigits(s))
                  IN  IF n = None THEN Empty
                      ELSE LET h == n[1] \div 60
                               mm == n[1] % 60
                           IN  NatStr(h) \o <<":">> \o PadStart(NatStr(mm), 2, "0")

-----------------------------------------------------------------------------
(* The server, as far as the client observes it (section 6 of the design) *)

\* the server refuses an empty name and keeps names unique
ServerCreate(S, n) == IF n = Empty THEN S ELSE S \cup {n}

ServerDelete(S, n) == IF n = Default THEN S ELSE S \ {n}

ServerRename(S, old, new) ==
    IF old \in S /\ old # Default /\ new # Empty /\ new \notin S
    THEN (S \ {old}) \cup {new}
    ELSE S

-----------------------------------------------------------------------------
(* The page *)

Blank == [kind |-> "blank", list |-> Empty]
Placeholder == [kind |-> "placeholder", list |-> Empty]
Listing(n) == [kind |-> "listing", list |-> n]

\* refreshListsDropdown, line 201: the names offered, 'default' hidden
DropdownNames(lists) == {n \in lists : n # Default}

\* `select.value = v`: selects the option whose value is v; with no such
\* option nothing is selected and select.value reads ''
SetSelect(opts, v) == IF v \in opts \cup {Empty} THEN v ELSE Empty

\* mutant: refreshList fetches even with nothing selected
RefreshFetch_m(sel) == Some([api |-> "getList", list_name |-> sel])

\* window.refreshList, lines 179-185: the request it issues, if any
RefreshFetch(sel) ==
    IF sel = Empty THEN None ELSE Some([api |-> "getList", list_name |-> sel])

\* window.refreshList, lines 181-184: the container right after the call
RefreshShown(sel) == IF sel = Empty THEN Placeholder ELSE shown

\* openStreamFor, lines 213-216 and 406-409: es.close(); es = null
CloseSources == IF es # None THEN sources (-) SetToBag({es[1]}) ELSE sources

closeStream ==
    /\ sources' = CloseSources
    /\ es' = None
    /\ timers' = timers

openStreamFor(list_name) ==
    /\ pushAvailable \/ timers < MaxTimers
    /\ IF pushAvailable
       THEN /\ sources' = CloseSources (+) SetToBag({list_name})
            /\ es' = Some(list_name)
            /\ timers' = timers
       ELSE /\ sources' = CloseSources
            /\ es' = None
            /\ timers' = timers + 1

\* what a handler does with the stream once its awaited refreshList() returned
StreamTail(h, name) ==
    CASE h = "change" -> IF selectValue' = Empty THEN closeStream
                         ELSE openStreamFor(selectValue')
      [] h = "new"    -> openStreamFor(name)
      [] OTHER        -> UNCHANGED <<es, sources, timers>>

-----------------------------------------------------------------------------
(* Suspended handlers and the observation of a step *)

\* name: the handler's name.trim() / newName.trim(), a pure function of a
\* local that never changes, computed once here
Task(h, name, req, mut, nref) ==
    [h |-> h, name |-> name, req |-> req, mut |-> mut, nref |-> nref]

\* observation carried by a Create handler: the Selection State and `es` at
\* the click that started it
Started(t) == t @@ [sel0 |-> selectValue, es0 |-> es]
Continued(t, next) ==
    IF t.h = "new" THEN next @@ [sel0 |-> t.sel0, es0 |-> t.es0] ELSE next

\* observation carried by an update request: cur says that the edit session
\* that sent it is still the latest one; opening the modal again makes the
\* requests in flight belong to an earlier session
InSession(t) == t @@ [cur |-> TRUE]
Outdate(t) == IF t.req.api = "update" THEN [t EXCEPT !.cur = FALSE] ELSE t
Superseded(bag) ==
    [u \in {Outdate(t) : t \in BagToSet(bag)} |->
        BagCardinality([t \in {x \in BagToSet(bag) : Outdate(x) = u} |->
                           CopiesIn(t, bag)])]

CanAwait == BagCardinality(tasks) < MaxTasks

Suspend(t) == tasks' = tasks (+) SetToBag({t})
Resume(t, next) ==
    tasks' = IF next = None THEN tasks (-) SetToBag({t})
             ELSE (tasks (-) SetToBag({t})) (+) SetToBag({next[1]})

\* ev: the event; api: the call whose result arrived ("" for a user event or
\* a notification); h: the handler; refresh: refreshList() calls in the step;
\* fetch: the request the step issued; alert: the alert() it showed;
\* done/mut/nref: the handler ended in this step, after its mutation request
\* completed or not, having called refreshList() nref times in all
Answered(api, ev, h, refresh, fetch, alert, done, mut, nref) ==
    last' = [ev |-> ev, api |-> api, h |-> h, refresh |-> refresh, fetch |-> fetch,
             alert |-> alert, done |-> done, mut |-> mut, nref |-> nref]

Observe(ev, h, refresh, fetch, alert, done, mut, nref) ==
    Answered("", ev, h, refresh, fetch, alert, done, mut, nref)

NoAlert == ""

UNCH_stream == UNCHANGED <<es, sources, timers>>
UNCH_modal == UNCHANGED <<editingContext, modalShown, fields>>
UNCH_env == UNCHANGED <<pushAvailable, results, runtime>>

-----------------------------------------------------------------------------
(* Initial state: DOMContentLoaded has run to its first await, line 416 *)

InitTask == Task("init", Empty, [api |-> "getLists"], FALSE, 0)

\* nothing has been handed to formatRuntime
NoRuntime == [raw |-> Null, text |-> None]

NoFields == [title |-> Empty, year |-> Empty, genre |-> Empty, synopsis |-> Empty]

Init ==
    /\ pushAvailable \in BOOLEAN
    /\ serverLists = {Default, A}
    /\ options = {}
    /\ selectValue = Empty
    /\ shown = Blank
    /\ es = None
    /\ sources = EmptyBag
    /\ timers = 0
    /\ editingContext = None
    /\ modalShown = FALSE
    /\ fields = NoFields
    /\ results = FALSE
    /\ runtime = NoRuntime
    /\ tasks = SetToBag({InitTask})
    /\ last = [ev |-> "load", api |-> "", h |-> "init", refresh |-> 0,
               fetch |-> Some([api |-> "getLists"]), alert |-> NoAlert,
               done |-> FALSE, mut |-> FALSE, nref |-> 0]

-----------------------------------------------------------------------------
(* Inputs *)

\* what the user may type at a prompt(): nothing, a name, a name with a
\* trailing blank, a blank, the reserved name
NameInputs == {Empty, A, B, <<"B", " ">>, <<" ">>, Default}

\* prompt() returns null on Cancel
PromptResults == {None} \cup {Some(n) : n \in NameInputs}

-----------------------------------------------------------------------------
(* List management: lines 358-413 *)

\* select 'change' listener, lines 402-413, up to its await of refreshList()
SelectChange(v) ==
    /\ v \in options \cup {Empty}
    /\ v # selectValue
    /\ selectValue' = v
    /\ shown' = RefreshShown(v)
    /\ IF RefreshFetch(v) = None
       THEN /\ tasks' = tasks
            /\ StreamTail("change", Empty)
            /\ Observe("change", "change", 1, None, NoAlert, TRUE, FALSE, 1)
       ELSE /\ CanAwait
            /\ Suspend(Task("change", Empty, RefreshFetch(v)[1], FALSE, 1))
            /\ UNCH_stream
            /\ Observe("change", "change", 1, RefreshFetch(v), NoAlert, FALSE, FALSE, 1)
    /\ UNCHANGED <<serverLists, options>>
    /\ UNCH_modal /\ UNCH_env

\* newBtn 'click' listener, lines 364-369
NewReturns(name) == name = None \/ name[1] = Empty

NewClick(name) ==
    /\ name \in PromptResults
    /\ IF NewReturns(name)
       THEN /\ tasks' = tasks
            /\ Observe("newClick", "new", 0, None, NoAlert, TRUE, FALSE, 0)
       ELSE /\ CanAwait
            /\ Suspend(Started(Task("new", Trim(name[1]),
                                    [api |-> "createList", name |-> Trim(name[1])],
                                    FALSE, 0)))
            /\ Observe("newClick", "new", 0,
                       Some([api |-> "createList", name |-> Trim(name[1])]),
                       NoAlert, FALSE, FALSE, 0)
    /\ UNCHANGED <<serverLists, options, selectValue, shown>>
    /\ UNCH_stream /\ UNCH_modal /\ UNCH_env

\* mutant: the guard forgets the empty selection
RenameRefused_m(oldName) == oldName = Default

\* renameBtn 'click' listener, line 383
RenameRefused(oldName) == oldName = Empty \/ oldName = Default

\* renameBtn 'click' listener, line 385
RenameReturns(oldName, newName) ==
    newName = None \/ newName[1] = Empty \/ newName[1] = oldName

RenameClick(newName) ==
    /\ newName \in PromptResults
    /\ IF RenameRefused(selectValue)
       THEN /\ tasks' = tasks
            /\ Observe("renameClick", "rename", 0, None,
                       "Cannot rename default list", TRUE, FALSE, 0)
       ELSE IF RenameReturns(selectValue, newName)
       THEN /\ tasks' = tasks
            /\ Observe("renameClick", "rename", 0, None, NoAlert, TRUE, FALSE, 0)
       ELSE /\ CanAwait
            /\ Suspend(Task("rename", Trim(newName[1]),
                            [api |-> "renameList", old |-> selectValue,
                             new |-> Trim(newName[1])], FALSE, 0))
            /\ Observe("renameClick", "rename", 0,
                       Some([api |-> "renameList", old |-> selectValue,
                             new |-> Trim(newName[1])]),
                       NoAlert, FALSE, FALSE, 0)
    /\ UNCHANGED <<serverLists, options, selectValue, shown>>
    /\ UNCH_stream /\ UNCH_modal /\ UNCH_env

\* deleteBtn 'click' listener, line 394
DeleteRefused(name) == name = Empty \/ name = Default

DeleteClick(confirmed) ==
    /\ confirmed \in BOOLEAN
    /\ IF DeleteRefused(selectValue)
       THEN /\ tasks' = tasks
            /\ Observe("deleteClick", "delete", 0, None,
                       "Cannot delete default list", TRUE, FALSE, 0)
       ELSE IF ~confirmed
       THEN /\ tasks' = tasks
            /\ Observe("deleteClick", "delete", 0, None, NoAlert, TRUE, FALSE, 0)
       ELSE /\ CanAwait
            /\ Suspend(Task("delete", Empty,
                            [api |-> "deleteList", name |-> selectValue], FALSE, 0))
            /\ Observe("deleteClick", "delete", 0,
                       Some([api |-> "deleteList", name |-> selectValue]),
                       NoAlert, FALSE, FALSE, 0)
    /\ UNCHANGED <<serverLists, options, selectValue, shown>>
    /\ UNCH_stream /\ UNCH_modal /\ UNCH_env

\* the alert of the catch block of the newBtn listener, lines 374-377; the
\* other listeners have no catch: their rejection goes unhandled
FailureAlert(h) == IF h = "new" THEN "Could not create list" ELSE NoAlert

\* a handler's awaited call rejects: the handler ends there
Abort(t) ==
    /\ Resume(t, None)
    /\ Answered(t.req.api, "failure", t.h, 0, None, FailureAlert(t.h), TRUE, t.mut, t.nref)
    /\ UNCHANGED <<serverLists, options, selectValue, shown>>
    /\ UNCH_stream /\ UNCH_modal /\ UNCH_env

ListCalls == {"createList", "renameList", "deleteList"}

ServerApply(S, req) ==
    CASE req.api = "createList" -> ServerCreate(S, req.name)
      [] req.api = "renameList" -> ServerRename(S, req.old, req.new)
      [] req.api = "deleteList" -> ServerDelete(S, req.name)
      [] OTHER -> S

\* createList / renameList / deleteList returns (lines 369, 386, 396); the
\* handler goes on to refreshListsDropdown(), which awaits getLists()
RespondListCall(t, ok) ==
    /\ t \in BagToSet(tasks)
    /\ t.req.api \in ListCalls
    /\ IF ok
       THEN /\ serverLists' = ServerApply(serverLists, t.req)
            /\ Resume(t, Some(Continued(t, Task(t.h, t.name, [api |-> "getLists"],
                                                TRUE, t.nref))))
            /\ Answered(t.req.api, "response", t.h, 0, Some([api |-> "getLists"]), NoAlert,
                       FALSE, TRUE, t.nref)
            /\ UNCHANGED <<options, selectValue, shown>>
            /\ UNCH_stream /\ UNCH_modal /\ UNCH_env
       ELSE Abort(t)

\* the value each handler assigns to select.value after refreshListsDropdown()
\* (lines 371, 388, 398, 417)
SelectAfterDropdown(t) ==
    CASE t.h = "new"    -> t.name
      [] t.h = "rename" -> t.name
      [] OTHER          -> Empty

\* getLists() returns inside refreshListsDropdown (lines 191-207); the handler
\* sets select.value and calls refreshList() (lines 371-372, 388-389, 398-399,
\* 417-418)
RespondGetLists(t, ok) ==
    /\ t \in BagToSet(tasks)
    /\ t.req.api = "getLists"
    /\ IF ok
       THEN /\ options' = DropdownNames(serverLists)
            /\ selectValue' = SetSelect(options', SelectAfterDropdown(t))
            /\ shown' = RefreshShown(selectValue')
            /\ IF RefreshFetch(selectValue') = None
               THEN /\ Resume(t, None)
                    /\ StreamTail(t.h, t.name)
                    /\ Answered(t.req.api, "response", t.h, 1, None, NoAlert, TRUE, t.mut, t.nref + 1)
               ELSE /\ Resume(t, Some(Continued(t, Task(t.h, t.name,
                                                        RefreshFetch(selectValue')[1],
                                                        t.mut, t.nref + 1))))
                    /\ UNCH_stream
                    /\ Answered(t.req.api, "response", t.h, 1, RefreshFetch(selectValue'), NoAlert,
                               FALSE, t.mut, t.nref + 1)
            /\ UNCHANGED serverLists
            /\ UNCH_modal /\ UNCH_env
       ELSE Abort(t)

\* getList() returns inside refreshList (lines 186-187): renderList, then the
\* rest of the handler that awaited refreshList()
RespondGetList(t, ok) ==
    /\ t \in BagToSet(tasks)
    /\ t.req.api = "getList"
    /\ IF ok
       THEN /\ shown' = Listing(t.req.list_name)
            /\ selectValue' = selectValue
            /\ Resume(t, None)
            /\ StreamTail(t.h, t.name)
            /\ Answered(t.req.api, "response", t.h, 0, None, NoAlert, TRUE, t.mut, t.nref)
            /\ UNCHANGED <<serverLists, options>>
            /\ UNCH_modal /\ UNCH_env
       ELSE Abort(t)

-----------------------------------------------------------------------------
(* Live updates: lines 219-222 and 230-232 *)

Notify(ev, h) ==
    /\ shown' = RefreshShown(selectValue)
    /\ IF RefreshFetch(selectValue) = None
       THEN /\ tasks' = tasks
            /\ Observe(ev, h, 1, None, NoAlert, TRUE, FALSE, 1)
       ELSE /\ CanAwait
            /\ Suspend(Task(h, Empty, RefreshFetch(selectValue)[1], FALSE, 1))
            /\ Observe(ev, h, 1, RefreshFetch(selectValue), NoAlert, FALSE, FALSE, 1)
    /\ UNCHANGED <<serverLists, options, selectValue>>
    /\ UNCH_stream /\ UNCH_modal /\ UNCH_env

\* es.onmessage of an open EventSource
PushMessage == sources # EmptyBag /\ Notify("push", "push")

\* a tick of a polling interval
TimerTick == timers > 0 /\ Notify("tick", "poll")

-----------------------------------------------------------------------------
(* Movies: search hits and the entries of a rendered listing *)

\* the synopsis cap of the Save handler, slice(0,250)
SynopsisCap == 250

Year == <<"1", "9", "9", "9">>
Genre == <<"D", "r", "a", "m", "a">>

\* entries a rendered listing may hold: what their Remove and Edit buttons
\* close over (movie, year, genre), lines 94-137
Movies ==
    { [id |-> 1, title |-> <<"T">>, year |-> Year, genre |-> Genre, synopsis |-> <<"s">>] }

\* ids of search hits
Hits == {1}

MovieCalls == {"add", "remove", "update", "clear"}

\* search form 'submit' listener, lines 236-239
SearchSubmit ==
    /\ CanAwait
    /\ results' = FALSE
    /\ Suspend(Task("search", Empty, [api |-> "search"], FALSE, 0))
    /\ Observe("searchSubmit", "search", 0, Some([api |-> "search"]), NoAlert,
               FALSE, FALSE, 0)
    /\ UNCHANGED <<pushAvailable, runtime, serverLists, options, selectValue, shown>>
    /\ UNCH_stream /\ UNCH_modal

\* searchMovies() returns, lines 240-270: Add buttons exist iff there are hits
RespondSearch(t, ok, hits) ==
    /\ t \in BagToSet(tasks)
    /\ t.req.api = "search"
    /\ hits \in BOOLEAN
    /\ IF ok
       THEN /\ results' = hits
            /\ Resume(t, None)
            /\ Answered(t.req.api, "response", t.h, 0, None, NoAlert, TRUE, FALSE, 0)
            /\ UNCHANGED <<pushAvailable, runtime, serverLists, options, selectValue,
                           shown>>
            /\ UNCH_stream /\ UNCH_modal
       ELSE Abort(t)

\* mutant: addMovie() is not awaited, refreshList() runs with the click
AddClick_m(id) ==
    /\ results
    /\ id \in Hits
    /\ CanAwait
    /\ Suspend(Task("add", Empty,
                    [api |-> "add", id |-> id, list_name |-> selectValue], FALSE, 1))
    /\ shown' = RefreshShown(selectValue)
    /\ Observe("addClick", "add", 1,
               Some([api |-> "add", id |-> id, list_name |-> selectValue]),
               NoAlert, FALSE, FALSE, 1)
    /\ UNCHANGED <<serverLists, options, selectValue>>
    /\ UNCH_stream /\ UNCH_modal /\ UNCH_env

\* Add button 'click' listener, lines 261-264
AddClick(id) ==
    /\ results
    /\ id \in Hits
    /\ CanAwait
    /\ Suspend(Task("add", Empty,
                    [api |-> "add", id |-> id, list_name |-> selectValue], FALSE, 0))
    /\ Observe("addClick", "add", 0,
               Some([api |-> "add", id |-> id, list_name |-> selectValue]),
               NoAlert, FALSE, FALSE, 0)
    /\ UNCHANGED <<serverLists, options, selectValue, shown>>
    /\ UNCH_stream /\ UNCH_modal /\ UNCH_env

\* Remove button 'click' listener, lines 115-123
RemoveClick(movie, confirmed) ==
    /\ shown.kind = "listing"
    /\ movie \in Movies
    /\ confirmed \in BOOLEAN
    /\ IF ~confirmed
       THEN /\ tasks' = tasks
            /\ Observe("removeClick", "remove", 0, None, NoAlert, TRUE, FALSE, 0)
       ELSE /\ CanAwait
            /\ Suspend(Task("remove", Empty,
                            [api |-> "remove", id |-> movie.id, year |-> movie.year,
                             genre |-> movie.genre, list_name |-> selectValue],
                            FALSE, 0))
            /\ Observe("removeClick", "remove", 0,
                       Some([api |-> "remove", id |-> movie.id, year |-> movie.year,
                             genre |-> movie.genre, list_name |-> selectValue]),
                       NoAlert, FALSE, FALSE, 0)
    /\ UNCHANGED <<serverLists, options, selectValue, shown>>
    /\ UNCH_stream /\ UNCH_modal /\ UNCH_env

\* clearBtn 'click' listener, lines 346-350
ClearClick(confirmed) ==
    /\ confirmed \in BOOLEAN
    /\ IF ~confirmed
       THEN /\ tasks' = tasks
            /\ Observe("clearClick", "clear", 0, None, NoAlert, TRUE, FALSE, 0)
       ELSE /\ CanAwait
            /\ Suspend(Task("clear", Empty,
                            [api |-> "clear", list_name |-> selectValue], FALSE, 0))
            /\ Observe("clearClick", "clear", 0,
                       Some([api |-> "clear", list_name |-> selectValue]),
                       NoAlert, FALSE, FALSE, 0)
    /\ UNCHANGED <<serverLists, options, selectValue, shown>>
    /\ UNCH_stream /\ UNCH_modal /\ UNCH_env

-----------------------------------------------------------------------------
(* Edit modal: lines 285-332 *)

\* 'openEditModal' listener, lines 285-296, dispatched by an Edit button
\* (lines 133-137)
EditClick(movie) ==
    /\ shown.kind = "listing"
    /\ movie \in Movies
    /\ editingContext' = Some([id |-> movie.id, origYear |-> movie.year,
                               origGenre |-> movie.genre])
    /\ fields' = [title |-> movie.title, year |-> movie.year,
                  genre |-> movie.genre, synopsis |-> movie.synopsis]
    /\ modalShown' = TRUE
    /\ tasks' = Superseded(tasks)
    /\ Observe("editClick", "edit", 0, None, NoAlert, TRUE, FALSE, 0)
    /\ UNCHANGED <<serverLists, options, selectValue, shown>>
    /\ UNCH_stream /\ UNCH_env

\* mutant: Cancel hides the overlay and keeps the Editing Context
CancelClick_m ==
    /\ modalShown' = FALSE
    /\ UNCHANGED <<editingContext, fields>>
    /\ Observe("cancelClick", "cancel", 0, None, NoAlert, TRUE, FALSE, 0)
    /\ UNCHANGED <<serverLists, options, selectValue, shown, tasks>>
    /\ UNCH_stream /\ UNCH_env

\* modalCancel 'click' listener, lines 299-302
CancelClick ==
    /\ modalShown' = FALSE
    /\ editingContext' = None
    /\ fields' = fields
    /\ Observe("cancelClick", "cancel", 0, None, NoAlert, TRUE, FALSE, 0)
    /\ UNCHANGED <<serverLists, options, selectValue, shown, tasks>>
    /\ UNCH_stream /\ UNCH_env

NoKeys == [k \in {} |-> Empty]

\* the optional keys of the update payload, lines 311-319
PayloadOptions(f) ==
    LET newTitle == Trim(f.title)
        newYear == Trim(f.year)
        newGenre == Trim(f.genre)
        newSynopsis == IF f.synopsis # Empty
                       THEN Some(Slice0(Trim(f.synopsis), SynopsisCap))
                       ELSE None
    IN  (IF newTitle # Empty THEN [new_title |-> newTitle] ELSE NoKeys)
        @@ (IF newYear # Empty THEN [new_year |-> newYear] ELSE NoKeys)
        @@ (IF newGenre # Empty THEN [new_genre |-> newGenre] ELSE NoKeys)
        @@ (IF newSynopsis # None THEN [new_synopsis |-> newSynopsis[1]] ELSE NoKeys)

\* the body of the update request, lines 310-323
SavePayload(ctx, f, list_name) ==
    [id |-> ctx.id, list_name |-> list_name] @@ PayloadOptions(f)

\* mutant: without a context the handler still closes the overlay and refreshes
SaveWithoutContext_m ==
    /\ tasks' = tasks
    /\ shown' = RefreshShown(Empty)
    /\ modalShown' = FALSE
    /\ UNCHANGED <<editingContext, fields>>
    /\ Observe("saveClick", "save", 1, None, NoAlert, TRUE, FALSE, 1)

\* modalSave 'click' listener, line 309: `if (!editingContext) return;`
SaveWithoutContext ==
    /\ tasks' = tasks
    /\ shown' = shown
    /\ Observe("saveClick", "save", 0, None, NoAlert, TRUE, FALSE, 0)
    /\ UNCH_modal

\* modalSave 'click' listener, lines 308-328
SaveClick ==
    /\ IF editingContext = None
       THEN SaveWithoutContext
       ELSE /\ CanAwait
            /\ shown' = shown
            /\ UNCH_modal
            /\ Suspend(InSession(Task("save", Empty,
                            [api |-> "update",
                             body |-> SavePayload(editingContext[1], fields, selectValue)],
                            FALSE, 0)))
            /\ Observe("saveClick", "save", 0,
                       Some([api |-> "update",
                             body |-> SavePayload(editingContext[1], fields, selectValue)]),
                       NoAlert, FALSE, FALSE, 0)
    /\ UNCHANGED <<serverLists, options, selectValue>>
    /\ UNCH_stream /\ UNCH_env

\* /api/add, /api/remove, /api/update or /api/clear returns: the handler
\* calls refreshList() (lines 124, 265, 329-331, 351)
RespondMovieCall(t, ok) ==
    /\ t \in BagToSet(tasks)
    /\ t.req.api \in MovieCalls
    /\ IF ok
       THEN /\ IF t.req.api = "update"
               THEN /\ modalShown' = FALSE
                    /\ editingContext' = None
                    /\ fields' = fields
               ELSE UNCH_modal
            /\ shown' = RefreshShown(selectValue)
            /\ IF RefreshFetch(selectValue) = None
               THEN /\ Resume(t, None)
                    /\ Answered(t.req.api, "response", t.h, 1, None, NoAlert, TRUE, TRUE, 1)
               ELSE /\ Resume(t, Some(Task(t.h, Empty, RefreshFetch(selectValue)[1],
                                           TRUE, 1)))
                    /\ Answered(t.req.api, "response", t.h, 1, RefreshFetch(selectValue), NoAlert,
                               FALSE, TRUE, 1)
            /\ UNCHANGED <<serverLists, options, selectValue>>
            /\ UNCH_stream /\ UNCH_env
       ELSE Abort(t)

-----------------------------------------------------------------------------
(* Typing into the edit form *)

\* a text of n visible characters
Chars(n) == [i \in 1..n |-> "x"]

\* length of the long synopsis the user may paste
LongLen == 300

TitleInputs == {Empty, <<"N">>, <<" ", "N", " ">>}
YearInputs == {Empty, <<" ">>, <<"2", "0", "0", "0">>}
GenreInputs == {Empty, <<"X">>}
SynopsisInputs ==
    {Empty, <<" ">>, <<" ", "y", " ">>, Chars(SynopsisCap), Chars(SynopsisCap + 1),
     Chars(LongLen), <<" ">> \o Chars(LongLen) \o <<" ">>}

FieldInputs(f) ==
    CASE f = "title" -> TitleInputs
      [] f = "year" -> YearInputs
      [] f = "genre" -> GenreInputs
      [] f = "synopsis" -> SynopsisInputs

\* the user edits one input of the overlay (the synopsis 'input' listener,
\* lines 338-341, only updates the counter text)
TypeField(f, v) ==
    /\ modalShown
    /\ f \in DOMAIN fields
    /\ v \in FieldInputs(f)
    /\ v # fields[f]
    /\ fields' = [fields EXCEPT ![f] = v]
    /\ Observe("type", "input", 0, None, NoAlert, TRUE, FALSE, 0)
    /\ UNCHANGED <<serverLists, options, selectValue, shown, tasks,
                   editingContext, modalShown>>
    /\ UNCH_stream /\ UNCH_env

-----------------------------------------------------------------------------
(* The program *)

\* Spec: every handler of the page; the user starts an action when the page
\* is idle, while push messages and timer ticks arrive at any time.
Next ==
    \/ tasks = EmptyBag /\ \E v \in {Empty, A, B} : SelectChange(v)
    \/ tasks = EmptyBag /\ \E name \in PromptResults : NewClick(name)
    \/ tasks = EmptyBag /\ \E newName \in PromptResults : RenameClick(newName)
    \/ tasks = EmptyBag /\ \E confirmed \in BOOLEAN : DeleteClick(confirmed)
    \/ tasks = EmptyBag /\ SearchSubmit
    \/ tasks = EmptyBag /\ \E id \in Hits : AddClick(id)
    \/ tasks = EmptyBag /\ \E movie \in Movies, confirmed \in BOOLEAN :
                               RemoveClick(movie, confirmed)
    \/ tasks = EmptyBag /\ \E confirmed \in BOOLEAN : ClearClick(confirmed)
    \/ tasks = EmptyBag /\ \E movie \in Movies : EditClick(movie)
    \/ tasks = EmptyBag /\ TypeField("title", <<"N">>)
    \/ tasks = EmptyBag /\ CancelClick
    \/ tasks = EmptyBag /\ SaveClick
    \/ PushMessage
    \/ TimerTick
    \/ \E t \in BagToSet(tasks), ok \in BOOLEAN : RespondListCall(t, ok)
    \/ \E t \in BagToSet(tasks), ok \in BOOLEAN : RespondGetLists(t, ok)
    \/ \E t \in BagToSet(tasks), ok \in BOOLEAN : RespondGetList(t, ok)
    \/ \E t \in BagToSet(tasks), ok \in BOOLEAN : RespondMovieCall(t, ok)
    \/ \E t \in BagToSet(tasks), ok, hits \in BOOLEAN : RespondSearch(t, ok, hits)

Spec == Init /\ [][Next]_vars

\* SpecLists: list management and live updates, handlers overlapping freely
\* (up to MaxTasks suspended at once).
NextLists ==
    \/ \E v \in {Empty, A, B} : SelectChange(v)
    \/ \E name \in PromptResults : NewClick(name)
    \/ \E newName \in PromptResults : RenameClick(newName)
    \/ \E confirmed \in BOOLEAN : DeleteClick(confirmed)
    \/ PushMessage
    \/ TimerTick
    \/ \E t \in BagToSet(tasks), ok \in BOOLEAN : RespondListCall(t, ok)
    \/ \E t \in BagToSet(tasks), ok \in BOOLEAN : RespondGetLists(t, ok)
    \/ \E t \in BagToSet(tasks), ok \in BOOLEAN : RespondGetList(t, ok)

SpecLists == Init /\ [][NextLists]_vars

\* SpecOk: selecting and creating lists under live updates, with handlers
\* overlapping freely, every request succeeding, the responses arriving in
\* any order.
NextOk ==
    \/ \E v \in {Empty, A, B} : SelectChange(v)
    \/ \E name \in PromptResults : NewClick(name)
    \/ PushMessage
    \/ TimerTick
    \/ \E t \in BagToSet(tasks) : RespondListCall(t, TRUE)
    \/ \E t \in BagToSet(tasks) : RespondGetLists(t, TRUE)
    \/ \E t \in BagToSet(tasks) : RespondGetList(t, TRUE)

SpecOk == Init /\ [][NextOk]_vars

\* SpecMovies: the movie actions and the edit modal on the lists that exist,
\* handlers overlapping freely.
NextMovies ==
    \/ \E v \in {Empty, A, B} : SelectChange(v)
    \/ SearchSubmit
    \/ \E id \in Hits : AddClick(id)
    \/ \E movie \in Movies, confirmed \in BOOLEAN : RemoveClick(movie, confirmed)
    \/ \E confirmed \in BOOLEAN : ClearClick(confirmed)
    \/ \E movie \in Movies : EditClick(movie)
    \/ CancelClick
    \/ SaveClick
    \/ \E t \in BagToSet(tasks), ok \in BOOLEAN : RespondGetLists(t, ok)
    \/ \E t \in BagToSet(tasks), ok \in BOOLEAN : RespondGetList(t, ok)
    \/ \E t \in BagToSet(tasks), ok \in BOOLEAN : RespondMovieCall(t, ok)
    \/ \E t \in BagToSet(tasks), ok, hits \in BOOLEAN : RespondSearch(t, ok, hits)

SpecMovies == Init /\ [][NextMovies]_vars

\* SpecEdit: one edit at a time, with every input of the form typed freely.
NextEdit ==
    \/ tasks = EmptyBag /\ \E v \in {Empty, A} : SelectChange(v)
    \/ tasks = EmptyBag /\ \E movie \in Movies : EditClick(movie)
    \/ tasks = EmptyBag /\ \E f \in DOMAIN fields : \E v \in FieldInputs(f) : TypeField(f, v)
    \/ tasks = EmptyBag /\ CancelClick
    \/ tasks = EmptyBag /\ SaveClick
    \/ \E t \in BagToSet(tasks), ok \in BOOLEAN : RespondGetLists(t, ok)
    \/ \E t \in BagToSet(tasks), ok \in BOOLEAN : RespondGetList(t, ok)
    \/ \E t \in BagToSet(tasks), ok \in BOOLEAN : RespondMovieCall(t, ok)

SpecEdit == Init /\ [][NextEdit]_vars

\* SpecFormat: the formatter applied to one runtime value, as renderList
\* (line 98) and the search results (line 255) apply it to each item.
\* longest text drawn over FormatAlphabet
FormatLen == 3

FormatAlphabet == {"0", "1", "9", " ", "m"}

Texts(n) == UNION {[1..k -> FormatAlphabet] : k \in 0..n}

NumberInputs ==
    {Num(FALSE, k, Empty) : k \in {0, 5, 59, 60, 61, 125, 600, 1439}}
    \cup {Num(TRUE, 5, Empty), Num(FALSE, 1, <<"5">>), Num(FALSE, 90, <<"2", "5">>)}

RawInputs ==
    {Null, Undefined, NotANumber} \cup NumberInputs
    \cup {Str(s) : s \in Texts(FormatLen)}
    \cup {Str(<<"1", "4", "2", " ", "m", "i", "n">>), Str(<<"a", "b", "c">>),
          Str(<<" ", "1", "2", "5", " ">>), Str(<<"7", "2", "0", "0">>)}

InitFormat ==
    /\ pushAvailable \in BOOLEAN
    /\ serverLists = {Default, A}
    /\ options = {}
    /\ selectValue = Empty
    /\ shown = Blank
    /\ es = None
    /\ sources = EmptyBag
    /\ timers = 0
    /\ editingContext = None
    /\ modalShown = FALSE
    /\ fields = NoFields
    /\ results = FALSE
    /\ runtime \in {[raw |-> r, text |-> None] : r \in RawInputs}
    /\ tasks = SetToBag({InitTask})
    /\ last = [ev |-> "load", api |-> "", h |-> "init", refresh |-> 0,
               fetch |-> Some([api |-> "getLists"]), alert |-> NoAlert,
               done |-> FALSE, mut |-> FALSE, nref |-> 0]

\* one call of formatRuntime(movie.runtime)
FormatRuntime ==
    /\ runtime.text = None
    /\ runtime' = [runtime EXCEPT !.text = Some(formatRuntime(runtime.raw))]
    /\ UNCHANGED <<pushAvailable, serverLists, options, selectValue, shown, es,
                   sources, timers, editingContext, modalShown, fields, results,
                   tasks, last>>

NextFormat == FormatRuntime

SpecFormat == InitFormat /\ [][NextFormat]_vars

-----------------------------------------------------------------------------
(* Claims *)

\* C1: at any time at most one live-update subscription or polling timer is
\* active: the open EventSource objects and the running polling intervals
\* together number at most one.
C1_AtMostOneLive == BagCardinality(sources) + timers <= 1

\* C2: whenever a subscription is open and the Selection State is non-empty,
\* the list the subscription was opened for is the selected list.
C2_SubscriptionTargetsSelection ==
    (es # None /\ selectValue # Empty) => es[1] = selectValue

\* C3: when a confirmed, successful Delete has completed (the handler ran to
\* its end), the Selection State is empty and no subscription is open, so no
\* push message can invoke Refresh any more.
DeleteCompleted ==
    /\ last.ev = "response" /\ last.api = "getLists"
    /\ last.h = "delete" /\ last.done

C3_DeleteDisconnects ==
    DeleteCompleted => (selectValue = Empty /\ es = None /\ sources = EmptyBag)

\* C5: a Rename or Delete click while the Selection State is "default" or
\* empty issues no request, shows an alert, and leaves the Selection State,
\* the dropdown and the subscription as they were.
GuardedClick(l) == l.ev \in {"renameClick", "deleteClick"}

C5_GuardedClickIsRefused ==
    [][(GuardedClick(last') /\ selectValue \in {Empty, Default})
        => /\ last'.fetch = None
           /\ tasks' = tasks
           /\ last'.alert \in {"Cannot rename default list", "Cannot delete default list"}
           /\ UNCHANGED <<selectValue, options, es, sources, timers, serverLists>>]_vars

C5_Witness ==
    /\ last.ev = "renameClick"
    /\ last.alert = "Cannot rename default list"
    /\ selectValue = Empty
    /\ options # {}

\* C4 (as claimed): on every mutation path Refresh is invoked only after the
\* mutation request's response has arrived, and every handler whose mutation
\* request completed ends having invoked Refresh exactly once.
MutationClicks ==
    {"addClick", "removeClick", "saveClick", "clearClick",
     "newClick", "renameClick", "deleteClick"}

MutationApis == MovieCalls \cup ListCalls

RefreshNotBeforeResponse ==
    /\ last.ev \in MutationClicks => last.refresh = 0
    /\ \A t \in BagToSet(tasks) : t.req.api \in MutationApis => (~t.mut /\ t.nref = 0)
    /\ \A t \in BagToSet(tasks) : t.nref <= 1

ReloadFailed ==
    /\ last.ev = "failure" /\ last.api = "getLists"
    /\ last.h \in {"new", "rename", "delete"}

TheMovie(id) == CHOOSE m \in Movies : m.id = id

OnlyTitleChanged ==
    /\ editingContext # None
    /\ LET m == TheMovie(editingContext[1].id)
       IN  /\ fields.year = m.year
           /\ fields.genre = m.genre
           /\ fields.synopsis = m.synopsis
           /\ fields.title # m.title
           /\ Trim(fields.title) # Empty

SaveSent == last.ev = "saveClick" /\ last.fetch # None

C6_OnlyTitleInPayload ==
    (SaveSent /\ OnlyTitleChanged)
        => DOMAIN last.fetch[1].body = {"id", "new_title", "list_name"}

\* C7: the new_synopsis of a save payload, when present, is the first 250
\* characters of the trimmed synopsis field (all of it when shorter), so it is
\* never longer than 250; a 300-character synopsis gives 250 characters.
IsPrefix(p, s) == Len(p) <= Len(s) /\ \A i \in 1..Len(p) : p[i] = s[i]

C7_SynopsisTruncated ==
    (SaveSent /\ "new_synopsis" \in DOMAIN last.fetch[1].body) =>
        LET out == last.fetch[1].body.new_synopsis
            trimmed == Trim(fields.synopsis)
        IN  /\ Len(out) <= SynopsisCap
            /\ IsPrefix(out, trimmed)
            /\ Len(out) = IF Len(trimmed) < SynopsisCap THEN Len(trimmed) ELSE SynopsisCap
            /\ fields.synopsis = Chars(LongLen) => Len(out) = SynopsisCap

C7_Witness ==
    /\ SaveSent
    /\ fields.synopsis = Chars(LongLen)
    /\ Len(last.fetch[1].body.new_synopsis) = SynopsisCap

\* C8: a Save click with no Editing Context changes nothing: no request, no
\* Refresh, and the overlay, the Selection State, the Editing Context and the
\* displayed list stay as they were.
C8_SaveWithoutContextIsNoop ==
    [][(last'.ev = "saveClick" /\ editingContext = None)
        => /\ tasks' = tasks
           /\ last'.fetch = None
           /\ last'.refresh = 0
           /\ UNCHANGED <<modalShown, editingContext, fields, selectValue, options,
                          shown, es, sources, timers, serverLists, results>>]_vars

\* a Save click that did nothing, after an edit session was opened and closed
C8_Witness ==
    /\ last.ev = "saveClick" /\ last.fetch = None
    /\ editingContext = None
    /\ fields # NoFields

\* C9: while subscribed to a list n, a push message invokes Refresh exactly
\* once and that Refresh issues exactly one fetch of the Listing of n.
SubscribedTo(n) == es = Some(n) /\ n # Empty

C9_PushFetchesSubscribedList ==
    [][(last'.ev = "push" /\ \E n \in {A, B} : SubscribedTo(n))
        => /\ last'.refresh = 1
           /\ last'.fetch = Some([api |-> "getList", list_name |-> es[1]])]_vars

\* C10: Refresh reads the Selection State when it is invoked: with nothing
\* selected it shows the pick-a-list placeholder and fetches nothing;
\* otherwise it issues exactly one Listing fetch, for the list selected at
\* that moment, and when that fetch returns its result is rendered.
ListingFetch(n) == [api |-> "getList", list_name |-> n]

Fetching(bag, n) ==
    {t \in BagToSet(bag) : t.req = ListingFetch(n)}

C10_RefreshReadsSelection ==
    [][/\ last'.refresh = 1 =>
            IF selectValue' = Empty
            THEN /\ shown' = Placeholder
                 /\ last'.fetch = None
                 /\ \A t \in BagToSet(tasks') :
                        t.req.api = "getList" => t \in BagToSet(tasks)
            ELSE /\ last'.fetch = Some(ListingFetch(selectValue'))
                 /\ \E t \in Fetching(tasks', selectValue') :
                        CopiesIn(t, tasks') = CopiesIn(t, tasks) + 1
       /\ \A t \in BagToSet(tasks) :
            (/\ t.req.api = "getList"
             /\ last'.ev = "response"
             /\ tasks' = tasks (-) SetToBag({t}))
            => shown' = Listing(t.req.list_name)]_vars

C10_Witness ==
    /\ last.refresh = 1 /\ last.h = "save"
    /\ selectValue = A
    /\ last.fetch = Some(ListingFetch(A))

\* C11: a Create flow for a non-empty name whose requests all succeed issues
\* the create request, reloads the dropdown, selects the new name, invokes
\* Refresh and opens the subscription, in that order; when it completes, the
\* Selection State is the trimmed name and (the push transport being
\* available) the channel is subscribed to that name.
CreateFlowEnds(t) ==
    /\ t.h = "new"
    /\ tasks' = tasks (-) SetToBag({t})
    /\ last'.ev = "response" /\ last'.h = "new"

CreateFlowInOrder ==
    /\ \A t \in BagToSet(tasks') :
          t.h = "new" =>
             /\ t.req.api \in {"createList", "getLists", "getList"}
             /\ t.req.api = "createList" => (~t.mut /\ t.nref = 0 /\ t.req.name = t.name)
             /\ t.req.api = "getLists" => (t.mut /\ t.nref = 0)
             /\ t.req.api = "getList" => (t.mut /\ t.nref = 1 /\ t.req.list_name = t.name)
    /\ (\E t \in BagToSet(tasks') : t.h = "new") => UNCHANGED <<es, sources, timers>>

C11_CreateSelectsAndSubscribes ==
    [][/\ CreateFlowInOrder
       /\ \A t \in BagToSet(tasks) :
            CreateFlowEnds(t) =>
               /\ selectValue' = t.name
               /\ pushAvailable => es' = Some(t.name)]_vars

\* C12: Cancel in the edit modal discards the Editing Context and hides the
\* overlay; it issues no request and no Refresh, and leaves the Selection
\* State, the dropdown, the displayed list and the subscription as they were.
C12_CancelDiscardsOnly ==
    [][last'.ev = "cancelClick"
        => /\ editingContext' = None
           /\ modalShown' = FALSE
           /\ last'.fetch = None
           /\ last'.refresh = 0
           /\ tasks' = tasks
           /\ UNCHANGED <<selectValue, options, shown, es, sources, timers,
                          serverLists>>]_vars

\* Cancel was clicked on an overlay opened from the listing of the selected,
\* subscribed list
C12_Witness ==
    /\ last.ev = "cancelClick"
    /\ fields # NoFields
    /\ editingContext = None /\ ~modalShown
    /\ selectValue = A /\ shown = Listing(A) /\ es = Some(A)

\* C13: formatRuntime returns "" for null, undefined, a blank input or an
\* input without a digit; otherwise, n being the base-10 integer written by
\* the digits of the input, it returns H:MM with H = floor(n/60) in decimal
\* and MM = n mod 60 on two digits (125 gives 2:05, "142 min" gives 2:22).
RECURSIVE Pow10(_)
Pow10(k) == IF k = 0 THEN 1 ELSE 10 * Pow10(k - 1)

RECURSIVE SumTo(_, _)
SumTo(f, k) == IF k = 0 THEN 0 ELSE f[k] + SumTo(f, k - 1)

\* the integer a sequence of digits writes
ValueOf(ds) ==
    SumTo([i \in 1..Len(ds) |-> DigitVal(ds[i]) * Pow10(Len(ds) - i)], Len(ds))

AllDigits(s) == \A i \in 1..Len(s) : IsDigit(s[i])

\* out reads H:MM for the integer n
ReadsAs(out, n) ==
    /\ Len(out) >= 4
    /\ out[Len(out) - 2] = ":"
    /\ LET hh == SubSeq(out, 1, Len(out) - 3)
           mm == SubSeq(out, Len(out) - 1, Len(out))
       IN  /\ AllDigits(hh) /\ AllDigits(mm)
           /\ Len(hh) > 1 => hh[1] # "0"
           /\ ValueOf(mm) = n % 60
           /\ ValueOf(hh) * 60 + ValueOf(mm) = n

\* the characters of the input as the claim reads them
Written(raw) == IF raw.kind \in {"null", "undefined"} THEN Empty ELSE String(raw)

InputDigits(raw) ==
    LET w == Written(raw)
        idx == {i \in 1..Len(w) : IsDigit(w[i])}
        RECURSIVE Pick(_)
        Pick(k) == IF k > Len(w) THEN Empty
                   ELSE (IF k \in idx THEN <<w[k]>> ELSE Empty) \o Pick(k + 1)
    IN  Pick(1)

C14_SynopsisKeyIffNonBlank ==
    SaveSent =>
        (("new_synopsis" \in DOMAIN last.fetch[1].body)
            <=> Trim(fields.synopsis) # Empty)

\* C15: the Listing fetches issued by Refresh never overlap: at no time are
\* two of them awaiting their response.
RefreshFetches ==
    [t \in {u \in BagToSet(tasks) : u.req.api = "getList"} |-> CopiesIn(t, tasks)]

C15_RefreshFetchesDoNotOverlap == BagCardinality(RefreshFetches) <= 1

\* C16: when a network call of the Create flow fails (createList, the
\* dropdown reload or the Refresh fetch), an alert is shown, the flow ends,
\* and the Selection State and the subscription are what they were when
\* Create was clicked.
CreateFlowFails(t) ==
    /\ t.h = "new"
    /\ tasks' = tasks (-) SetToBag({t})
    /\ last'.ev = "failure" /\ last'.h = "new"

C16_FailedCreateChangesNothing ==
    [][\A t \in BagToSet(tasks) :
          CreateFlowFails(t) =>
             /\ last'.alert = "Could not create list"
             /\ last'.done
             /\ selectValue' = t.sel0
             /\ es' = t.es0]_vars

\* C17: when the dropdown is changed to the empty option, the change handler
\* ends with no push subscription open, and the handlers that were in flight
\* at the change leave it so when they resume.
ChangedToEmpty(l, sel) == l.ev = "change" /\ sel = Empty

Disconnected(e, s) == e = None /\ s = EmptyBag

C17_EmptySelectionDisconnects ==
    [][/\ ChangedToEmpty(last', selectValue') => Disconnected(es', sources')
       /\ (ChangedToEmpty(last, selectValue) /\ last'.ev \in {"response", "failure"})
            => Disconnected(es', sources')]_vars

\* C18: once every request in flight has completed, the list container shows
\* the Listing of the selected list, or the pick-a-list placeholder when
\* nothing is selected, whatever the order in which the responses arrived.
Quiescent == tasks = EmptyBag

C18_QuiescentShowsSelection ==
    Quiescent =>
        shown = IF selectValue = Empty THEN Placeholder ELSE Listing(selectValue)

\* C19: no add, remove, update or clear request is ever sent with an empty
\* list_name: with nothing selected these actions issue no request.
ListNameOf(req) == IF req.api = "update" THEN req.body.list_name ELSE req.list_name

C19_NoMutationWithoutList ==
    \A t \in BagToSet(tasks) :
        t.req.api \in MovieCalls => ListNameOf(t.req) # Empty

\* C20: an edit session (one opening of the modal) sends at most one update
\* request, even when Save is clicked again while the first request awaits
\* its response; and the completion of a Save of an earlier session never
\* clears the Editing Context of a session opened after it.
UpdateInFlight(t) == t.req.api = "update"

UpdateEnds(t) ==
    /\ UpdateInFlight(t)
    /\ last'.ev \in {"response", "failure"} /\ last'.api = "update"
    /\ CopiesIn(t, tasks') = CopiesIn(t, tasks) - 1

C20_OneUpdatePerSession ==
    [][/\ (last'.ev = "saveClick" /\ last'.fetch # None)
            => ~ \E t \in BagToSet(tasks) : UpdateInFlight(t) /\ t.cur
       /\ \A t \in BagToSet(tasks) :
            (UpdateEnds(t) /\ ~t.cur /\ editingContext # None)
                => editingContext' = editingContext]_vars

====
